---------------------------- MODULE Spec2Model ----------------------------
(***************************************************************************)
(* State-machine model of the text-to-diagram editor: the App component    *)
(* (build pipeline, selection, context menu, edit mode), the ModelSelector *)
(* (model-list fetches and auto-selection), the FlowDiagram canvas         *)
(* handlers and the ExportPanel.                                           *)
(*                                                                         *)
(* Every React event handler is one action; an async handler is one action *)
(* per synchronous segment (the code between two awaits), because React    *)
(* commits the state updates of one segment together.  The backend, the    *)
(* ELK layout engine, html-to-image and window.prompt are opaque: their    *)
(* results are chosen nondeterministically from small sets.                *)
(***************************************************************************)
EXTENDS Integers, Sequences, FiniteSets, TLC

VARIABLES
    text,            \* App: useState(DEFAULT_TEXT), a sequence of characters
    selectedModel,   \* App: useState(""), a model id or ""
    error,           \* App: useState(null), an error message or Null
    isLoading,       \* App: useState(false)
    nodes,           \* App: useNodesState([]), a sequence of React Flow nodes
    edges,           \* App: useEdgesState([]), a sequence of React Flow edges
    buildPc,         \* position of the running processText call
    data,            \* processText: the parsed body of the last OK response
    outcome,         \* how the last finished processText call ended
    isEditMode,      \* App: useState(false)
    contextMenu,     \* App: useState(null), the menu's target or NoMenu
    selectedNodeId,  \* App: useState(null)
    models,          \* ModelSelector: useState([]), a sequence of model ids
    loadingModels,   \* ModelSelector: useState(true)
    selError,        \* ModelSelector: useState(null)
    fetches,         \* ModelSelector: the /models requests in flight
    isExporting,     \* ExportPanel: useState(false)
    exportMenuOpen,  \* ExportPanel: the Radix dropdown is open
    pngPc,           \* position of the running exportToPng call
    downloads,       \* number of files handed to the browser for download
    lastFormat,      \* handleExportFormat: the format of the last call
    lastFile,        \* the file of the last link.click()
    pngRuns,         \* calls of exportToPng between setIsExporting(true) and finally
    clock,           \* milliseconds elapsed, for Date.now()
    latest,          \* how the GET /models started last has settled
    inflight,        \* POST /process-text requests sent and not settled
    menuAction,      \* the menu item clicked since the menu was last opened
    highlightPending, \* the highlight effect is scheduled and has not run
    rangeCall,       \* findHighlightRange: the arguments of the last call
    rangeResult,     \* findHighlightRange: what the last call returned
    hasError,        \* ErrorBoundary: state.hasError
    boundaryError,   \* ErrorBoundary: state.error
    life             \* the page load this component tree belongs to

vars == <<text, selectedModel, error, isLoading, nodes, edges, buildPc,
          data, outcome, isEditMode, contextMenu, selectedNodeId,
          models, loadingModels, selError, fetches, isExporting,
          exportMenuOpen, pngPc, downloads, lastFormat, lastFile, pngRuns, clock,
          latest, inflight, menuAction, highlightPending, rangeCall,
          rangeResult, hasError, boundaryError,
          life>>

appVars    == <<text, selectedModel, error, isLoading>>
graphVars  == <<nodes, edges>>
buildVars  == <<buildPc, data, outcome, inflight>>
editVars   == <<isEditMode, contextMenu, selectedNodeId, menuAction>>
selVars    == <<models, loadingModels, selError, fetches, latest>>
boundaryVars == <<hasError, boundaryError, life>>
rangeVars  == <<rangeCall, rangeResult>>
restVars   == <<clock, highlightPending, rangeVars, boundaryVars>>
exportVars == <<isExporting, exportMenuOpen, pngPc, downloads, lastFormat, lastFile,
                pngRuns, restVars>>

----------------------------------------------------------------------------
(* Bounds of the model *)

MaxNodes == 2        \* nodes in one backend response
MaxEdges == 2        \* edges in one backend response

----------------------------------------------------------------------------
(* Values *)

Null      == "null"         \* JavaScript null (string-typed state)
Undefined == "undefined"    \* JavaScript undefined (an absent optional field)
NoSpan    == <<>>           \* an absent sourceSpan

\* The messages passed to setError (the source's Russian texts, by meaning).
ErrBlankText    == "enter a process description"          \* part_005:107
ErrNoModel      == "choose a model"                       \* part_005:111
ErrBuildFailed  == "could not get or process the schema"  \* part_005:190-192
ErrPngFailed    == "could not export the schema"          \* ExportPanel:119
ErrBpmnFailed   == "could not export to BPMN"             \* ExportPanel:181
ErrJsonFailed   == "could not export to JSON"             \* ExportPanel:216
ErrMermaidFailed == "could not export to Mermaid"         \* ExportPanel:248
ErrModelsFailed == "could not load the model list"        \* part_003:48

\* Texts the user can have in the textarea; DefaultText stands for DEFAULT_TEXT.
DefaultText == <<"p", " ">>
Texts == {DefaultText, <<>>, <<" ">>}

IsSpace(c) == c = " "

RECURSIVE TrimStart(_)
TrimStart(s) ==
    IF s = <<>> THEN <<>>
    ELSE IF IsSpace(Head(s)) THEN TrimStart(Tail(s)) ELSE s

RECURSIVE TrimEnd(_)
TrimEnd(s) ==
    IF s = <<>> THEN <<>>
    ELSE IF IsSpace(s[Len(s)]) THEN TrimEnd(SubSeq(s, 1, Len(s) - 1)) ELSE s

\* String.prototype.trim
Trim(s) == TrimEnd(TrimStart(s))

\* Sequences over S of length at most n.
SeqsUpTo(S, n) == UNION {[1..k -> S] : k \in 0..n}

\* Array.prototype.filter: the elements s[i] with i in Keep, in order.
RECURSIVE FilterIdx(_, _, _)
FilterIdx(s, Keep, i) ==
    IF i > Len(s) THEN <<>>
    ELSE (IF i \in Keep THEN <<s[i]>> ELSE <<>>) \o FilterIdx(s, Keep, i + 1)

----------------------------------------------------------------------------
(* The backend's answer to POST /process-text (FlowData) *)

\* FlowNode values the backend may return.  The third shares its id with the
\* first and is an "action" without an actor.
FlowNodes ==
    { [id |-> "a", label |-> "L1", type |-> "action", actor |-> "clerk",
       sourceSpan |-> <<0, 4>>],
      [id |-> "b", label |-> "L2", type |-> "decision", actor |-> Undefined,
       sourceSpan |-> NoSpan],
      [id |-> "a", label |-> "L3", type |-> "action", actor |-> Undefined,
       sourceSpan |-> NoSpan] }

\* FlowEdge values the backend may return.
FlowEdges ==
    { [from |-> "a", to |-> "b", label |-> "yes"],
      [from |-> "b", to |-> "a", label |-> Undefined] }

\* Well-formed response bodies.
FlowDatas ==
    { [nodes |-> ns, edges |-> es] :
        ns \in SeqsUpTo(FlowNodes, MaxNodes), es \in SeqsUpTo(FlowEdges, MaxEdges) }

\* What the awaited fetch and response.json() of processText can produce: a
\* well-formed body, or one of the failures that end in the catch block.
BuildFailures == {"rejected", "notOk", "badJson", "noNodes", "noEdges"}

----------------------------------------------------------------------------
(* processText: mapping the response to React Flow elements *)

COLOR_ACTION   == "#f39c12"
COLOR_DECISION == "#ecf0f1"

\* Boolean(x) for an optional string.
Truthy(x) == x # Undefined /\ x # ""

\* The rendered <CustomNodeContent label actor isAction />, by its props.
CustomNodeContent(label, actor, isAction) ==
    [label |-> label, actor |-> actor, isAction |-> isAction]

\* data.nodes.map(...): one React Flow node per response node.
MapNode(node) ==
    LET isAction  == node.type = "action" /\ Truthy(node.actor)
        labelText == node.label
    IN  [ id   |-> node.id,
          data |-> [ label      |-> CustomNodeContent(labelText, node.actor, isAction),
                     text       |-> labelText,
                     actor      |-> node.actor,
                     isAction   |-> isAction,
                     sourceSpan |-> node.sourceSpan ],
          position |-> <<0, 0>>,
          style |-> [ backgroundColor |-> IF isAction THEN COLOR_ACTION
                                                      ELSE COLOR_DECISION,
                      boxShadow |-> Undefined ] ]

\* The template literal `e-${source}-${target}-${n}`.
EdgeId(source, target, n) ==
    "e-" \o source \o "-" \o target \o "-" \o ToString(n)

\* A variant of MapEdge that takes source from edge.to and target from
\* edge.from.
MapEdgeSwapped(edge, i) ==
    [ id     |-> EdgeId(edge.from, edge.to, i),
      source |-> edge.to,
      target |-> edge.from,
      label  |-> edge.label ]

\* data.edges.map((edge, i) => ...): i is the 0-based index.
MapEdge(edge, i) ==
    [ id     |-> EdgeId(edge.from, edge.to, i),
      source |-> edge.from,
      target |-> edge.to,
      label  |-> edge.label ]

MapNodes(ns) == [k \in 1..Len(ns) |-> MapNode(ns[k])]
MapEdges(es) == [k \in 1..Len(es) |-> MapEdge(es[k], k - 1)]

----------------------------------------------------------------------------
(* getLayoutedElements and the layout engine *)

\* The coordinates the layout engine gives its k-th child.
LayoutPosition(k) == <<40 * k, 80 * k>>

NodeIdsOf(ns) == {ns[k].id : k \in 1..Len(ns)}

\* Permutations of 1..n.
Perms(n) == {f \in [1..n -> 1..n] : \A i, j \in 1..n : f[i] = f[j] => i = j}

\* What the awaited elk.layout(graph) can produce for the children ns: a
\* rejection, a graph without children, or the children it was given (each
\* once, by id, in some order), each with its coordinates.
ElkResults(ns) ==
    {[kind |-> "reject", children |-> <<>>], [kind |-> "noChildren", children |-> <<>>]}
    \cup { [kind |-> "ok",
            children |-> [k \in 1..Len(ns) |->
                           [id |-> ns[pi[k]].id, pos |-> LayoutPosition(k)]]] :
             pi \in Perms(Len(ns)) }

\* nodes.find((n) => n.id === id): the first node with that id.
Find(ns, id) ==
    LET hits == {k \in 1..Len(ns) : ns[k].id = id}
    IN  ns[CHOOSE k \in hits : \A j \in hits : k <= j]

\* A variant of getLayoutedElements that pairs the k-th child with the k-th
\* input node instead of looking the node up by the child's id.
getLayoutedElementsByIndex(ns, es, elk) ==
    IF elk.kind = "reject"
    THEN [nodes |-> ns, edges |-> es]
    ELSE LET children == elk.children
         IN  [ nodes |-> [k \in 1..Len(children) |->
                            [ns[k] EXCEPT !.position = children[k].pos]],
               edges |-> es ]

getLayoutedElements(ns, es, elk) ==
    IF elk.kind = "reject"
    THEN [nodes |-> ns, edges |-> es]
    ELSE LET children == elk.children
         IN  [ nodes |-> [k \in 1..Len(children) |->
                            [Find(ns, children[k].id)
                                EXCEPT !.position = children[k].pos]],
               edges |-> es ]

----------------------------------------------------------------------------
(* findHighlightRange *)

MaxTextLen == 3      \* characters in the text area

\* The characters typed in the text area.
RangeChars == {"a", " ", "."}

\* nodeText: string | undefined.
NoText == [defined |-> FALSE, text |-> <<>>]
RangeNodeTexts == {NoText} \cup {[defined |-> TRUE, text |-> t] : t \in {<<>>, <<" ">>, <<"a">>}}

\* The value null of the result, and the arguments before any call.
NoRange == <<>>
NoCall  == [fullText |-> <<>>, nodeText |-> NoText, pick |-> 0]

\* The separators of split(/[.!?]+/).
IsSeparator(c) == c \in {".", "!", "?"}

\* fullText.split(/[.!?]+/).filter((s) => s.trim().length > 0): the pieces
\* between runs of separators that are not blank, as <<first, last>> indices
\* of fullText, in order.
Pieces(t) ==
    LET runs == {r \in (1..Len(t)) \X (1..Len(t)) :
                   /\ r[1] <= r[2]
                   /\ \A i \in r[1]..r[2] : ~IsSeparator(t[i])
                   /\ (r[1] = 1 \/ IsSeparator(t[r[1] - 1]))
                   /\ (r[2] = Len(t) \/ IsSeparator(t[r[2] + 1]))
                   /\ Trim(SubSeq(t, r[1], r[2])) # <<>>}
    IN  [k \in 1..Cardinality(runs) |->
           CHOOSE r \in runs : Cardinality({q \in runs : q[1] < r[1]}) = k - 1]

\* fullText.indexOf(s): the 0-based position of the first occurrence.
IndexOf(t, s) ==
    LET hits == {i \in 0..(Len(t) - Len(s)) : SubSeq(t, i + 1, i + Len(s)) = s}
    IN  CHOOSE i \in hits : \A j \in hits : i <= j

\* The objects the sentences are mapped to.
Sentences(fullText) ==
    LET ps == Pieces(fullText)
    IN  [k \in 1..Len(ps) |->
           LET trimmed  == Trim(SubSeq(fullText, ps[k][1], ps[k][2]))
               startPos == IndexOf(fullText, trimmed)
           IN  [text |-> trimmed, startPos |-> startPos,
                endPos |-> startPos + Len(trimmed)]]

\* findHighlightRange(fullText, nodeText), with pick the sentence the fuzzy
\* search puts first with a score that passes, and 0 if there is none.
findHighlightRange(fullText, nodeText, pick) ==
    IF ~nodeText.defined \/ Trim(nodeText.text) = <<>>
    THEN NoRange
    ELSE LET sentences == Sentences(fullText)
         IN  IF Len(sentences) = 0 THEN NoRange
             ELSE IF pick = 0 THEN NoRange
             ELSE <<sentences[pick].startPos, sentences[pick].endPos>>

----------------------------------------------------------------------------
(* ErrorBoundary *)

MaxLives == 2        \* page loads

\* The errors a render of the children can throw.
RenderErrors == {"TypeError"}

\* A variant of getDerivedStateFromError that records the error only.
getDerivedStateFromErrorIgnored(err) == [hasError |-> FALSE, error |-> err]

\* static getDerivedStateFromError(error): the state that replaces this.state.
getDerivedStateFromError(err) == [hasError |-> TRUE, error |-> err]

\* render(): the fallback screen if this.state.hasError, else this.props.children.
BoundaryRenders == IF hasError THEN "fallback" ELSE "children"

\* The module that mounts the tree is not among the sources: the App is taken
\* to be the boundary's children.
AppInsideBoundary == TRUE

----------------------------------------------------------------------------
(* App: the text area and the build *)

\* A render that throws unmounts the component tree: ModelSelector's render
\* calls models.find, which throws once models is undefined; and the App is
\* on the screen only while the boundary renders its children.
Mounted ==
    /\ models # <<Undefined>>
    /\ AppInsideBoundary => BoundaryRenders = "children"

\* A variant of SetText that also starts a build of the text typed, when it
\* is not blank, a model is selected and no build is running.
SetTextBuilds(t) ==
    /\ Mounted
    /\ t # text
    /\ text' = t
    /\ IF Trim(t) # <<>> /\ selectedModel # "" /\ buildPc = "idle"
       THEN /\ isLoading' = TRUE
            /\ error' = Null
            /\ buildPc' = "fetch"
            /\ inflight' = inflight + 1
       ELSE UNCHANGED <<error, isLoading, buildPc, inflight>>
    /\ UNCHANGED <<selectedModel, graphVars, data, outcome, editVars, selVars,
                   exportVars>>

\* TextEditor: onChange={(e) => setText(e.target.value)}
SetText(t) ==
    /\ Mounted
    /\ t # text
    /\ text' = t
    /\ UNCHANGED <<selectedModel, error, isLoading, graphVars, buildVars,
                   editVars, selVars, exportVars>>

\* Typing in the text area: a character more at the end, or one less.
TypeText ==
    \/ \E c \in RangeChars :
         /\ Len(text) < MaxTextLen
         /\ SetText(Append(text, c))
    \/ /\ Len(text) > 0
       /\ SetText(SubSeq(text, 1, Len(text) - 1))

\* TextEditor's overlay calls findHighlightRange(text, nodeText) with the text
\* of the selected node.
FindRange ==
    /\ Mounted
    /\ \E nodeText \in RangeNodeTexts, pick \in 0..Len(Pieces(text)) :
         /\ rangeCall' = [fullText |-> text, nodeText |-> nodeText, pick |-> pick]
         /\ rangeResult' = findHighlightRange(text, nodeText, pick)
    /\ UNCHANGED <<appVars, graphVars, buildVars, editVars, selVars, isExporting,
                   exportMenuOpen, pngPc, downloads, lastFormat, lastFile, pngRuns, clock,
                   highlightPending, boundaryVars>>

\* A variant of BuildButtonDisabled that does not look at isLoading.
BuildButtonDisabledOnBlank == Trim(text) = <<>>

\* TextEditor: the build button's disabled attribute.
BuildButtonDisabled == isLoading \/ Trim(text) = <<>>

\* A variant of ProcessTextStart that looks at the model before the text.
ProcessTextStartModelFirst ==
    IF selectedModel = ""
    THEN /\ error' = ErrNoModel
         /\ UNCHANGED <<isLoading, buildPc, inflight>>
    ELSE IF Trim(text) = <<>>
    THEN /\ error' = ErrBlankText
         /\ UNCHANGED <<isLoading, buildPc, inflight>>
    ELSE /\ isLoading' = TRUE
         /\ error' = Null
         /\ buildPc' = "fetch"
         /\ inflight' = inflight + 1

\* processText up to its first await.
ProcessTextStart ==
    IF Trim(text) = <<>>
    THEN /\ error' = ErrBlankText
         /\ UNCHANGED <<isLoading, buildPc, inflight>>
    ELSE IF selectedModel = ""
    THEN /\ error' = ErrNoModel
         /\ UNCHANGED <<isLoading, buildPc, inflight>>
    ELSE /\ isLoading' = TRUE
         /\ error' = Null
         /\ buildPc' = "fetch"
         /\ inflight' = inflight + 1

buildStartFrame == <<text, selectedModel, graphVars, data, outcome, editVars,
                     selVars, exportVars>>

\* A click on the build button.
ClickBuild ==
    /\ Mounted
    /\ ~BuildButtonDisabled
    /\ ProcessTextStart
    /\ UNCHANGED buildStartFrame

\* processText called through the onProcessText prop whenever no call is
\* running, whatever the text is.
InvokeProcessText ==
    /\ Mounted
    /\ ~isLoading
    /\ ProcessTextStart
    /\ UNCHANGED buildStartFrame

\* A variant of BuildCatch without the finally block.
BuildCatchKeepsLoading ==
    /\ error' = ErrBuildFailed
    /\ isLoading' = isLoading
    /\ UNCHANGED graphVars

\* A variant of BuildCatch that empties the diagram.
BuildCatchClearsDiagram ==
    /\ error' = ErrBuildFailed
    /\ isLoading' = FALSE
    /\ nodes' = <<>>
    /\ edges' = <<>>

\* processText: the catch block followed by finally.
BuildCatch ==
    /\ error' = ErrBuildFailed
    /\ isLoading' = FALSE
    /\ UNCHANGED graphVars

\* The awaited fetch or response.json() fails, or the body lacks an array.
FetchFail ==
    /\ Mounted
    /\ buildPc = "fetch"
    /\ \E f \in BuildFailures : BuildCatch
    /\ buildPc' = "idle"
    /\ outcome' = "failed"
    /\ inflight' = inflight - 1
    /\ UNCHANGED <<text, selectedModel, data, editVars, selVars, exportVars>>

\* processText from the settled fetch to the await of getLayoutedElements
\* (response.json() is awaited in between; no state is written there).
FetchOk ==
    /\ Mounted
    /\ buildPc = "fetch"
    /\ \E body \in FlowDatas : data' = body
    /\ buildPc' = "layout"
    /\ inflight' = inflight - 1
    /\ UNCHANGED <<appVars, graphVars, outcome, editVars, selVars, exportVars>>

\* processText: the locals computed from data.
reactFlowNodes == MapNodes(data.nodes)
reactFlowEdges == MapEdges(data.edges)

\* A variant of ApplyLayout without the else branch.
ApplyLayoutNoFallback(layoutResult) ==
    /\ nodes' = layoutResult.nodes
    /\ edges' = layoutResult.edges
    /\ isLoading' = FALSE

\* processText after the layout: setNodes/setEdges, then finally.
ApplyLayout(layoutResult) ==
    /\ IF Len(layoutResult.nodes) > 0
       THEN /\ nodes' = layoutResult.nodes
            /\ edges' = layoutResult.edges
       ELSE /\ nodes' = reactFlowNodes
            /\ edges' = reactFlowEdges
    /\ isLoading' = FALSE

LayoutSettle ==
    /\ Mounted
    /\ buildPc = "layout"
    /\ \E elk \in ElkResults(reactFlowNodes) :
         /\ ApplyLayout(getLayoutedElements(reactFlowNodes, reactFlowEdges, elk))
         /\ outcome' = elk.kind
    /\ buildPc' = "idle"
    /\ UNCHANGED <<text, selectedModel, error, data, inflight, editVars, selVars,
                   exportVars>>

----------------------------------------------------------------------------
(* ModelSelector *)

MaxFetches == 3      \* GET /models requests in flight at once

\* Bodies GET /models can answer with: data.models, a list of model ids.
ModelLists == {<<>>, <<"m1", "m2">>}

ModelsFailures == {"rejected", "notOk", "badJson"}

\* The loading panel and the error panel are rendered instead of the dropdown.
DropdownShown == ~loadingModels /\ selError = Null

\* App: onModelChange={(modelId) => { setSelectedModel(modelId); setError(null) }}
onModelChange(modelId) ==
    /\ selectedModel' = modelId
    /\ error' = Null

\* fetchModels, the try block of a fetch that answered with data.models = list;
\* captured is the selectedModel of the render that started the fetch.
FetchModelsOk(captured, list) ==
    /\ models' = list
    /\ selError' = Null
    /\ IF captured = "" /\ Len(list) > 0
       THEN onModelChange(list[1])
       ELSE UNCHANGED <<selectedModel, error>>
    /\ loadingModels' = FALSE

\* fetchModels, a fetch that threw before setModels.
FetchModelsFail ==
    /\ selError' = ErrModelsFailed
    /\ loadingModels' = FALSE
    /\ UNCHANGED <<models, selectedModel, error>>

\* fetchModels, a body without a models field: setModels(undefined),
\* setError(null), then data.models.length throws and the catch block runs.
FetchModelsNoList ==
    /\ models' = <<Undefined>>
    /\ selError' = ErrModelsFailed
    /\ loadingModels' = FALSE
    /\ UNCHANGED <<selectedModel, error>>

RemoveAt(s, i) == SubSeq(s, 1, i - 1) \o SubSeq(s, i + 1, Len(s))

\* The i-th fetch in flight settles with result; the fetch started last is the
\* last one in flight, as long as it has not settled.
SettleLatest(i, result) ==
    latest' = IF i = Len(fetches) /\ latest = "pending" THEN result ELSE latest

selFrame == <<text, isLoading, graphVars, buildVars, editVars, exportVars>>

\* The effect of ModelSelector re-runs after an App render (onModelChange is
\* a new function on every render) and starts another fetch, which captures
\* the selectedModel of that render.
RefetchModels ==
    /\ Mounted
    /\ Len(fetches) < MaxFetches
    /\ fetches' = Append(fetches, selectedModel)
    /\ latest' = "pending"
    /\ UNCHANGED <<appVars, graphVars, buildVars, editVars, models,
                   loadingModels, selError, exportVars>>

ModelsSettleOk ==
    /\ Mounted
    /\ \E i \in 1..Len(fetches), list \in ModelLists :
        /\ FetchModelsOk(fetches[i], list)
        /\ fetches' = RemoveAt(fetches, i)
        /\ SettleLatest(i, "ok")
    /\ UNCHANGED selFrame

ModelsSettleFail ==
    /\ Mounted
    /\ \E i \in 1..Len(fetches), f \in ModelsFailures :
        /\ FetchModelsFail
        /\ fetches' = RemoveAt(fetches, i)
        /\ SettleLatest(i, "failed")
    /\ UNCHANGED selFrame

ModelsSettleNoList ==
    /\ Mounted
    /\ \E i \in 1..Len(fetches) :
        /\ FetchModelsNoList
        /\ fetches' = RemoveAt(fetches, i)
        /\ SettleLatest(i, "failed")
    /\ UNCHANGED selFrame

\* DropdownMenu.Item: onSelect={() => onModelChange(model.id)}; the trigger
\* button is disabled while isLoading.
SelectModel ==
    /\ Mounted
    /\ DropdownShown
    /\ ~isLoading
    /\ \E k \in 1..Len(models) : onModelChange(models[k])
    /\ UNCHANGED <<text, isLoading, graphVars, buildVars, editVars, selVars,
                   exportVars>>

----------------------------------------------------------------------------
(* FlowDiagram and App: edit mode, context menu, canvas events *)

MaxCanvasEdges == 2  \* edges on the canvas, past which no edge is connected

TimeBase == 1000     \* Date.now() at the first render

NoMenu == [target |-> Null, id |-> Null]

\* What window.prompt can return: null (cancelled) or the text entered.
PromptResults == {Null, "L1"}

\* The box-shadow the highlight effect gives the selected node, and the others.
SHADOW_SELECTED == "0 0 0 3px COLOR_SELECTED"
SHADOW_NONE     == "none"

\* onNodeClick: setSelectedNodeId(node.id).  The highlight effect depends on
\* selectedNodeId and is scheduled by the render that sees a new value.
onNodeClick ==
    /\ Mounted
    /\ \E k \in 1..Len(nodes) :
         /\ selectedNodeId' = nodes[k].id
         /\ highlightPending' = (highlightPending \/ nodes[k].id # selectedNodeId)
    /\ UNCHANGED <<appVars, graphVars, buildVars, isEditMode, contextMenu,
                   menuAction, selVars, isExporting, exportMenuOpen, pngPc,
                   downloads, lastFormat, lastFile, pngRuns, clock, rangeVars, boundaryVars>>

\* The highlight effect: setNodes maps every node to itself with the
\* box-shadow of the selection if its id is selectedNodeId, and none otherwise.
HighlightEffect ==
    /\ Mounted
    /\ highlightPending
    /\ highlightPending' = FALSE
    /\ nodes' = [k \in 1..Len(nodes) |->
                   [nodes[k] EXCEPT !.style.boxShadow =
                       IF nodes[k].id = selectedNodeId THEN SHADOW_SELECTED
                                                       ELSE SHADOW_NONE]]
    /\ UNCHANGED <<appVars, edges, buildVars, editVars, selVars, isExporting,
                   exportMenuOpen, pngPc, downloads, lastFormat, lastFile, pngRuns, clock,
                   rangeVars, boundaryVars>>

\* ControlButton: onClick={() => onToggleEditMode(!isEditMode)}
ToggleEditMode ==
    /\ Mounted
    /\ isEditMode' = ~isEditMode
    /\ UNCHANGED <<appVars, graphVars, buildVars, contextMenu, selectedNodeId,
                   menuAction, selVars, exportVars>>

\* A variant of CanvasHandlersSet: the handlers are handed over in both modes.
CanvasHandlersAlways == TRUE

\* FlowDiagram hands the canvas its change and context-menu handlers only in
\* edit mode: onNodesChange={isEditMode ? onNodesChange : undefined}, and the
\* same for onEdgesChange, onNodeContextMenu and onEdgeContextMenu.
CanvasHandlersSet == isEditMode

\* FlowDiagram: {contextMenu && isEditMode && (<div> ... menu ... </div>)}
MenuShown == contextMenu # NoMenu /\ isEditMode

editFrame == <<appVars, buildVars, selVars, exportVars>>

onNodeContextMenu ==
    /\ Mounted
    /\ CanvasHandlersSet
    /\ \E k \in 1..Len(nodes) :
         contextMenu' = [target |-> "node", id |-> nodes[k].id]
    /\ menuAction' = "none"
    /\ UNCHANGED <<editFrame, graphVars, isEditMode, selectedNodeId>>

onEdgeContextMenu ==
    /\ Mounted
    /\ CanvasHandlersSet
    /\ \E k \in 1..Len(edges) :
         contextMenu' = [target |-> "edge", id |-> edges[k].id]
    /\ menuAction' = "none"
    /\ UNCHANGED <<editFrame, graphVars, isEditMode, selectedNodeId>>

\* onPaneClick={closeContextMenu}, and the Escape key listener.
closeContextMenu ==
    /\ Mounted
    /\ contextMenu # NoMenu
    /\ contextMenu' = NoMenu
    /\ UNCHANGED <<editFrame, graphVars, isEditMode, selectedNodeId, menuAction>>

\* A variant of handleEditFromContext that renames every node.
handleEditFromContextAll(next) ==
    IF contextMenu = NoMenu \/ contextMenu.target # "node" \/ ~isEditMode
    THEN UNCHANGED <<nodes, contextMenu>>
    ELSE IF contextMenu.id \notin NodeIdsOf(nodes)
    THEN UNCHANGED <<nodes, contextMenu>>
    ELSE LET current == Find(nodes, contextMenu.id).data.text
         IN  /\ IF next # Null /\ next # current
                THEN nodes' =
                       [k \in 1..Len(nodes) |->
                          [nodes[k] EXCEPT
                             !.data.text = next,
                             !.data.label =
                                 CustomNodeContent(next, nodes[k].data.actor,
                                                   nodes[k].data.isAction)]]
                ELSE nodes' = nodes
             /\ contextMenu' = NoMenu

\* handleEditFromContext, with next the value window.prompt returns.
handleEditFromContext(next) ==
    IF contextMenu = NoMenu \/ contextMenu.target # "node" \/ ~isEditMode
    THEN UNCHANGED <<nodes, contextMenu>>
    ELSE IF contextMenu.id \notin NodeIdsOf(nodes)
    THEN UNCHANGED <<nodes, contextMenu>>
    ELSE LET current == Find(nodes, contextMenu.id).data.text
         IN  /\ IF next # Null /\ next # current
                THEN nodes' =
                       [k \in 1..Len(nodes) |->
                          IF nodes[k].id # contextMenu.id THEN nodes[k]
                          ELSE [nodes[k] EXCEPT
                                  !.data.text = next,
                                  !.data.label =
                                      CustomNodeContent(next, nodes[k].data.actor,
                                                        nodes[k].data.isAction)]]
                ELSE nodes' = nodes
             /\ contextMenu' = NoMenu

\* A click on the menu's Edit item, rendered for a node target.
EditFromContext ==
    /\ Mounted
    /\ MenuShown
    /\ contextMenu.target = "node"
    /\ \E next \in PromptResults : handleEditFromContext(next)
    /\ menuAction' = "edit"
    /\ UNCHANGED <<editFrame, edges, isEditMode, selectedNodeId>>

\* A variant of handleDeleteFromContext that leaves the edges of a deleted
\* node in place.
handleDeleteFromContextKeepsEdges ==
    IF contextMenu = NoMenu \/ ~isEditMode
    THEN UNCHANGED <<nodes, edges, contextMenu>>
    ELSE /\ IF contextMenu.target = "node"
            THEN /\ nodes' = FilterIdx(nodes,
                               {k \in 1..Len(nodes) : nodes[k].id # contextMenu.id}, 1)
                 /\ edges' = edges
            ELSE /\ edges' = FilterIdx(edges,
                               {k \in 1..Len(edges) : edges[k].id # contextMenu.id}, 1)
                 /\ nodes' = nodes
         /\ contextMenu' = NoMenu

handleDeleteFromContext ==
    IF contextMenu = NoMenu \/ ~isEditMode
    THEN UNCHANGED <<nodes, edges, contextMenu>>
    ELSE /\ IF contextMenu.target = "node"
            THEN /\ nodes' = FilterIdx(nodes,
                               {k \in 1..Len(nodes) : nodes[k].id # contextMenu.id}, 1)
                 /\ edges' = FilterIdx(edges,
                               {k \in 1..Len(edges) :
                                   /\ edges[k].source # contextMenu.id
                                   /\ edges[k].target # contextMenu.id}, 1)
            ELSE /\ edges' = FilterIdx(edges,
                               {k \in 1..Len(edges) : edges[k].id # contextMenu.id}, 1)
                 /\ nodes' = nodes
         /\ contextMenu' = NoMenu

\* A click on the menu's Delete item.
DeleteFromContext ==
    /\ Mounted
    /\ MenuShown
    /\ handleDeleteFromContext
    /\ menuAction' = "delete"
    /\ UNCHANGED <<editFrame, isEditMode, selectedNodeId>>

\* A variant of onConnect that does not look at params.source and
\* params.target before it builds the edge.
onConnectUnchecked(source, target) ==
    IF ~isEditMode
    THEN UNCHANGED edges
    ELSE edges' = << [ id     |-> EdgeId(source, target, TimeBase + clock),
                       source |-> source,
                       target |-> target,
                       label  |-> Undefined ] >> \o edges

\* FlowDiagram.onConnect; params.source and params.target may be null.  The
\* "add" change puts the new edge in front of the others.
onConnect(source, target) ==
    IF ~isEditMode \/ source = Null \/ target = Null
    THEN UNCHANGED edges
    ELSE edges' = << [ id     |-> EdgeId(source, target, TimeBase + clock),
                       source |-> source,
                       target |-> target,
                       label  |-> Undefined ] >> \o edges

MaxClock == 1        \* milliseconds that pass

\* A millisecond passes: Date.now() gives the next value.
Tick ==
    /\ Mounted
    /\ clock < MaxClock
    /\ clock' = clock + 1
    /\ UNCHANGED <<appVars, graphVars, buildVars, editVars, selVars,
                   isExporting, exportMenuOpen, pngPc, downloads, lastFormat, lastFile, pngRuns,
                   highlightPending, rangeVars, boundaryVars>>

\* The canvas reports a connection drawn between two handles.
Connect ==
    /\ Mounted
    /\ Len(edges) < MaxCanvasEdges
    /\ \E source, target \in NodeIdsOf(nodes) \cup {Null} : onConnect(source, target)
    /\ UNCHANGED <<editFrame, nodes, editVars>>

\* The canvas reports a dragged node: a "position" change, applied by
\* onNodesChange.
CanvasMoveNode ==
    /\ Mounted
    /\ CanvasHandlersSet
    /\ \E k \in 1..Len(nodes) :
         nodes' = [nodes EXCEPT ![k].position = LayoutPosition(k)]
    /\ UNCHANGED <<editFrame, edges, editVars>>

\* The canvas reports a deleted node (the Backspace key): "remove" changes for
\* the node and for the edges connected to it.
CanvasRemoveNode ==
    /\ Mounted
    /\ CanvasHandlersSet
    /\ \E k \in 1..Len(nodes) :
         /\ nodes' = FilterIdx(nodes, (1..Len(nodes)) \ {k}, 1)
         /\ edges' = FilterIdx(edges,
                       {j \in 1..Len(edges) :
                           /\ edges[j].source # nodes[k].id
                           /\ edges[j].target # nodes[k].id}, 1)
    /\ UNCHANGED <<editFrame, editVars>>

\* The canvas reports a deleted edge: a "remove" change.
CanvasRemoveEdge ==
    /\ Mounted
    /\ CanvasHandlersSet
    /\ \E k \in 1..Len(edges) :
         edges' = FilterIdx(edges, (1..Len(edges)) \ {k}, 1)
    /\ UNCHANGED <<editFrame, nodes, editVars>>

----------------------------------------------------------------------------
(* ExportPanel *)

MaxDownloads == 2    \* files downloaded, past which no export is started
MaxPngRuns == 2      \* PNG exports running, past which none is started

\* A variant of ExportDisabled that does not look at isExporting.
ExportDisabledOnEmpty == Len(nodes) = 0

\* const isDisabled = isExporting || nodes.length === 0
ExportDisabled == isExporting \/ Len(nodes) = 0

exportFrame == <<text, selectedModel, isLoading, graphVars, buildVars, editVars,
                 selVars, restVars>>

\* DropdownMenu.Trigger: a click on the enabled export button opens the menu.
OpenExportMenu ==
    /\ Mounted
    /\ ~ExportDisabled
    /\ ~exportMenuOpen
    /\ downloads < MaxDownloads
    /\ exportMenuOpen' = TRUE
    /\ UNCHANGED <<exportFrame, error, isExporting, pngPc, downloads, lastFormat,
                   lastFile, pngRuns>>

\* The menu is dismissed without a choice.
CloseExportMenu ==
    /\ Mounted
    /\ exportMenuOpen
    /\ exportMenuOpen' = FALSE
    /\ UNCHANGED <<exportFrame, error, isExporting, pngPc, downloads, lastFormat,
                   lastFile, pngRuns>>

\* A variant of exportToPngStart without the early return.
exportToPngStartUnguarded ==
    /\ isExporting' = TRUE
    /\ error' = Null
    /\ pngPc' = "timer"
    /\ pngRuns' = pngRuns + 1

\* exportToPng up to its first await (the wrapper ref is set once mounted).
exportToPngStart ==
    IF Len(nodes) = 0
    THEN UNCHANGED <<isExporting, error, pngPc, pngRuns>>
    ELSE /\ isExporting' = TRUE
         /\ error' = Null
         /\ pngPc' = "timer"
         /\ pngRuns' = pngRuns + 1

\* DropdownMenu.Item onSelect={() => handleExportFormat("png")}
ChoosePng ==
    /\ Mounted
    /\ exportMenuOpen
    /\ pngRuns < MaxPngRuns
    /\ exportMenuOpen' = FALSE
    /\ lastFormat' = "png"
    /\ exportToPngStart
    /\ UNCHANGED <<exportFrame, downloads, lastFile>>

\* exportToPng: catch, then finally.
PngCatch ==
    /\ error' = ErrPngFailed
    /\ isExporting' = FALSE
    /\ pngPc' = "idle"
    /\ pngRuns' = pngRuns - 1
    /\ UNCHANGED <<downloads, lastFile>>

\* After the 100 ms timer: the viewport element is looked up; toPng is awaited
\* when it is found.
PngTimerViewportFound ==
    /\ Mounted
    /\ pngPc = "timer"
    /\ pngPc' = "toPng"
    /\ UNCHANGED <<exportFrame, error, isExporting, exportMenuOpen, downloads,
                   lastFormat, lastFile, pngRuns>>

PngTimerViewportMissing ==
    /\ Mounted
    /\ pngPc = "timer"
    /\ PngCatch
    /\ UNCHANGED <<exportFrame, exportMenuOpen, lastFormat>>

PngRejected ==
    /\ Mounted
    /\ pngPc = "toPng"
    /\ PngCatch
    /\ UNCHANGED <<exportFrame, exportMenuOpen, lastFormat>>

\* toPng resolved: link.click(), then finally.
PngResolved ==
    /\ Mounted
    /\ pngPc = "toPng"
    /\ downloads' = downloads + 1
    /\ lastFile' = [format |-> "png"]
    /\ isExporting' = FALSE
    /\ pngPc' = "idle"
    /\ pngRuns' = pngRuns - 1
    /\ UNCHANGED <<exportFrame, error, exportMenuOpen, lastFormat>>

\* The elements of the process in the BPMN file: a task or a gateway per
\* node, a sequence flow per edge.
bpmnXml(ns, es) ==
    [ format |-> "bpmn",
      elements |-> [k \in 1..Len(ns) |->
                      [ tag  |-> IF ns[k].data.isAction THEN "bpmn:task"
                                                        ELSE "bpmn:exclusiveGateway",
                        id   |-> ns[k].id,
                        name |-> ns[k].data.text ]],
      flows |-> [k \in 1..Len(es) |->
                   [ id        |-> es[k].id,
                     sourceRef |-> es[k].source,
                     targetRef |-> es[k].target ]] ]

\* A line of the Mermaid text: four spaces, then the statement.
MermaidLine(statement) == [indent |-> 4, statement |-> statement]

\* The line of a node: `    ${node.id}${leftBracket}"${nodeData.text}"${rightBracket}`
MermaidNode(node) ==
    LET shape        == IF node.data.isAction THEN <<"[", "]">> ELSE <<"{", "}">>
        leftBracket  == shape[1]
        rightBracket == shape[2]
    IN  MermaidLine(node.id \o leftBracket \o "\"" \o node.data.text \o "\""
                      \o rightBracket)

\* The line of an edge: `    ${edge.source} -->${label} ${edge.target}`
MermaidEdge(edge) ==
    LET label == IF Truthy(edge.label) THEN "|\"" \o edge.label \o "\"" ELSE ""
    IN  MermaidLine(edge.source \o " -->" \o label \o " " \o edge.target)

\* The text of the Mermaid file, as its lines.
mermaidText(ns, es) ==
    [ format |-> "mermaid",
      lines  |-> <<[indent |-> 0, statement |-> "graph TD"]>>
                   \o [k \in 1..Len(ns) |-> MermaidNode(ns[k])]
                   \o [k \in 1..Len(es) |-> MermaidEdge(es[k])] ]

\* JSON.stringify of an object: a property whose value is undefined is left
\* out.
Stringify(object) ==
    [k \in {j \in DOMAIN object : object[j] # Undefined} |-> object[k]]

\* A variant of exportData that takes from from edge.target and to from
\* edge.source.
exportDataSwapped(ns, es) ==
    [ format |-> "json",
      nodes |-> [k \in 1..Len(ns) |->
                   Stringify([ id       |-> ns[k].id,
                               label    |-> ns[k].data.text,
                               actor    |-> ns[k].data.actor,
                               type     |-> IF ns[k].data.isAction THEN "action"
                                                                   ELSE "decision",
                               position |-> ns[k].position ])],
      edges |-> [k \in 1..Len(es) |->
                   Stringify([ id    |-> es[k].id,
                               from  |-> es[k].target,
                               to    |-> es[k].source,
                               label |-> es[k].label ])] ]

\* JSON.stringify(exportData, null, 2), as the value the text denotes.
exportData(ns, es) ==
    [ format |-> "json",
      nodes |-> [k \in 1..Len(ns) |->
                   Stringify([ id       |-> ns[k].id,
                               label    |-> ns[k].data.text,
                               actor    |-> ns[k].data.actor,
                               type     |-> IF ns[k].data.isAction THEN "action"
                                                                   ELSE "decision",
                               position |-> ns[k].position ])],
      edges |-> [k \in 1..Len(es) |->
                   Stringify([ id    |-> es[k].id,
                               from  |-> es[k].source,
                               to    |-> es[k].target,
                               label |-> es[k].label ])] ]

\* No file was downloaded yet.
NoFile == [format |-> "none"]

\* exportToBpmn, exportToJson and exportToMermaid: the file is built and
\* downloaded, or a browser API throws and the catch block sets errMsg.
exportSync(errMsg, file, throws) ==
    IF Len(nodes) = 0
    THEN UNCHANGED <<error, downloads, lastFile>>
    ELSE IF throws
    THEN /\ error' = errMsg
         /\ UNCHANGED <<downloads, lastFile>>
    ELSE /\ downloads' = downloads + 1
         /\ lastFile' = file
         /\ UNCHANGED error

SyncFormats == { [format |-> "bpmn", errMsg |-> ErrBpmnFailed,
                  file |-> bpmnXml(nodes, edges)],
                 [format |-> "mermaid", errMsg |-> ErrMermaidFailed,
                  file |-> mermaidText(nodes, edges)],
                 [format |-> "json", errMsg |-> ErrJsonFailed,
                  file |-> exportData(nodes, edges)] }

\* DropdownMenu.Item onSelect={() => handleExportFormat(format)}
ChooseSync ==
    /\ Mounted
    /\ exportMenuOpen
    /\ exportMenuOpen' = FALSE
    /\ \E f \in SyncFormats, throws \in BOOLEAN :
         /\ lastFormat' = f.format
         /\ exportSync(f.errMsg, f.file, throws)
    /\ UNCHANGED <<exportFrame, isExporting, pngPc, pngRuns>>

----------------------------------------------------------------------------
(* Specifications *)

\* The state after the first render of a page load.
Fresh ==
    /\ text = DefaultText
    /\ selectedModel = ""
    /\ error = Null
    /\ isLoading = FALSE
    /\ nodes = <<>>
    /\ edges = <<>>
    /\ buildPc = "idle"
    /\ data = [nodes |-> <<>>, edges |-> <<>>]
    /\ outcome = "none"
    /\ inflight = 0
    /\ isEditMode = FALSE
    /\ contextMenu = NoMenu
    /\ selectedNodeId = Null
    /\ menuAction = "none"
    /\ highlightPending = FALSE
    /\ rangeCall = NoCall
    /\ rangeResult = NoRange
    /\ models = <<>>
    /\ loadingModels = TRUE
    /\ selError = Null
    /\ fetches = <<"">>
    /\ latest = "pending"
    /\ isExporting = FALSE
    /\ exportMenuOpen = FALSE
    /\ pngPc = "idle"
    /\ downloads = 0
    /\ lastFormat = "none"
    /\ lastFile = NoFile
    /\ pngRuns = 0
    /\ clock = 0
    /\ hasError = FALSE
    /\ boundaryError = Undefined

Init == Fresh /\ life = 1

\* A render of the children throws: React replaces the boundary's state by
\* getDerivedStateFromError(error) and calls componentDidCatch, which logs.
RenderThrows ==
    /\ BoundaryRenders = "children"
    /\ \E err \in RenderErrors :
         LET st == getDerivedStateFromError(err)
         IN  /\ hasError' = st.hasError
             /\ boundaryError' = st.error
    /\ UNCHANGED <<appVars, graphVars, buildVars, editVars, selVars,
                   isExporting, exportMenuOpen, pngPc, downloads, lastFormat, lastFile, pngRuns,
                   clock, highlightPending, rangeVars, life>>

\* The fallback's button: onClick={() => window.location.reload()}.  The page
\* is loaded again and every component starts from its initial state.
ReloadPage ==
    /\ BoundaryRenders = "fallback"
    /\ life < MaxLives
    /\ life' = life + 1
    /\ text' = DefaultText
    /\ selectedModel' = ""
    /\ error' = Null
    /\ isLoading' = FALSE
    /\ nodes' = <<>>
    /\ edges' = <<>>
    /\ buildPc' = "idle"
    /\ data' = [nodes |-> <<>>, edges |-> <<>>]
    /\ outcome' = "none"
    /\ inflight' = 0
    /\ isEditMode' = FALSE
    /\ contextMenu' = NoMenu
    /\ selectedNodeId' = Null
    /\ menuAction' = "none"
    /\ highlightPending' = FALSE
    /\ rangeCall' = NoCall
    /\ rangeResult' = NoRange
    /\ models' = <<>>
    /\ loadingModels' = TRUE
    /\ selError' = Null
    /\ fetches' = <<"">>
    /\ latest' = "pending"
    /\ isExporting' = FALSE
    /\ exportMenuOpen' = FALSE
    /\ pngPc' = "idle"
    /\ downloads' = 0
    /\ lastFormat' = "none"
    /\ lastFile' = NoFile
    /\ pngRuns' = 0
    /\ clock' = 0
    /\ hasError' = FALSE
    /\ boundaryError' = Undefined

\* The build pipeline from the first render: the model list arrives, builds run.
Next ==
    \/ ModelsSettleOk
    \/ ModelsSettleFail
    \/ ModelsSettleNoList
    \/ ClickBuild
    \/ FetchFail
    \/ FetchOk
    \/ LayoutSettle

Spec == Init /\ [][Next]_vars

\* The states after a build whose layout was rejected, with the first model
\* selected: what Spec reaches by ModelsSettleOk, ClickBuild, FetchOk and
\* LayoutSettle.
Built(body) ==
    /\ text = DefaultText
    /\ selectedModel = "m1"
    /\ error = Null
    /\ isLoading = FALSE
    /\ nodes = MapNodes(body.nodes)
    /\ edges = MapEdges(body.edges)
    /\ buildPc = "idle"
    /\ data = body
    /\ outcome = "reject"
    /\ inflight = 0
    /\ isEditMode = FALSE
    /\ contextMenu = NoMenu
    /\ selectedNodeId = Null
    /\ menuAction = "none"
    /\ highlightPending = FALSE
    /\ rangeCall = NoCall
    /\ rangeResult = NoRange
    /\ models = <<"m1", "m2">>
    /\ loadingModels = FALSE
    /\ selError = Null
    /\ fetches = <<>>
    /\ latest = "ok"
    /\ isExporting = FALSE
    /\ pngPc = "idle"
    /\ downloads = 0
    /\ lastFormat = "none"
    /\ lastFile = NoFile
    /\ pngRuns = 0
    /\ clock = 0
    /\ hasError = FALSE
    /\ boundaryError = Undefined
    /\ life = 1

InitBuilt == \E body \in FlowDatas : Built(body) /\ exportMenuOpen = FALSE

\* processText as a function of the App state: called in every idle state,
\* also with the blank texts for which the build button is disabled.
InitHandler == Init \/ InitBuilt

NextHandler ==
    \/ \E t \in Texts : SetText(t)
    \/ ModelsSettleOk
    \/ ModelsSettleFail
    \/ ModelsSettleNoList
    \/ SelectModel
    \/ InvokeProcessText
    \/ FetchFail

SpecHandler == InitHandler /\ [][NextHandler]_vars

\* The page after its load, or with a diagram: the model list arrives, the
\* user types, chooses a model, selects a node and clicks the build button;
\* the request of a build fails or stays unanswered.
NextLoad ==
    \/ ModelsSettleOk
    \/ ModelsSettleFail
    \/ ModelsSettleNoList
    \/ \E t \in Texts : SetText(t)
    \/ SelectModel
    \/ onNodeClick
    \/ HighlightEffect
    \/ ClickBuild
    \/ FetchFail

SpecLoad == InitHandler /\ [][NextLoad]_vars

\* The build pipeline with the fetch and the layout eventually settling.
FairSpec ==
    /\ Spec
    /\ WF_vars(FetchFail \/ FetchOk)
    /\ WF_vars(LayoutSettle)

\* The ModelSelector under App re-renders, from the first render.
NextSelector ==
    \/ RefetchModels
    \/ ModelsSettleOk
    \/ ModelsSettleFail
    \/ ModelsSettleNoList
    \/ SelectModel

SpecSelector == Init /\ [][NextSelector]_vars

\* The model selector under the error boundary.
NextBoundary ==
    \/ NextSelector
    \/ RenderThrows
    \/ ReloadPage

SpecBoundary == Init /\ [][NextBoundary]_vars

\* Diagram interactions on a built diagram.
NextEdit ==
    \/ ToggleEditMode
    \/ onNodeContextMenu
    \/ onEdgeContextMenu
    \/ closeContextMenu
    \/ EditFromContext
    \/ DeleteFromContext
    \/ Connect
    \/ CanvasMoveNode
    \/ CanvasRemoveNode
    \/ CanvasRemoveEdge

\* The full-size responses; the canvas reaches smaller diagrams by deletions.
InitEdit ==
    \E body \in FlowDatas :
        /\ Len(body.nodes) = MaxNodes
        /\ Len(body.edges) = MaxEdges
        /\ Built(body)
        /\ exportMenuOpen = FALSE

SpecEdit == InitEdit /\ [][NextEdit]_vars

\* Typing, and calls of findHighlightRange on the text typed.
NextRange ==
    \/ TypeText
    \/ FindRange

SpecRange == Init /\ [][NextRange]_vars

\* The context menu's actions, connections and node selections on a built
\* diagram.
NextEditSelect ==
    \/ ToggleEditMode
    \/ onNodeContextMenu
    \/ onEdgeContextMenu
    \/ EditFromContext
    \/ DeleteFromContext
    \/ Connect
    \/ onNodeClick
    \/ HighlightEffect

SpecEditSelect == InitEdit /\ [][NextEditSelect]_vars

\* Node clicks and builds on a built diagram.
NextHighlight ==
    \/ onNodeClick
    \/ HighlightEffect
    \/ ClickBuild
    \/ FetchFail
    \/ FetchOk
    \/ LayoutSettle

SpecHighlight == InitBuilt /\ [][NextHighlight]_vars

\* Connections and deletions on a built diagram, with time passing.
NextIds ==
    \/ Tick
    \/ ToggleEditMode
    \/ onNodeContextMenu
    \/ onEdgeContextMenu
    \/ DeleteFromContext
    \/ Connect

SpecIds == InitEdit /\ [][NextIds]_vars

\* Exports of a built diagram.  The export menu may be open over any diagram:
\* a build that settles while the menu is open replaces the diagram under it.
InitExport == \E body \in FlowDatas : Built(body) /\ exportMenuOpen \in BOOLEAN

NextExport ==
    \/ OpenExportMenu
    \/ CloseExportMenu
    \/ ChoosePng
    \/ PngTimerViewportFound
    \/ PngTimerViewportMissing
    \/ PngRejected
    \/ PngResolved
    \/ ChooseSync

SpecExport == InitExport /\ [][NextExport]_vars

\* The 100 ms timer of exportToPng fires and the promise of toPng settles.
FairSpecExport ==
    /\ SpecExport
    /\ WF_vars(PngTimerViewportFound \/ PngTimerViewportMissing)
    /\ WF_vars(PngRejected \/ PngResolved)

\* The state of the first build once the response was read, the layout
\* pending.
Fetched(body) ==
    /\ text = DefaultText
    /\ selectedModel = "m1"
    /\ error = Null
    /\ isLoading = TRUE
    /\ nodes = <<>>
    /\ edges = <<>>
    /\ buildPc = "layout"
    /\ data = body
    /\ outcome = "none"
    /\ inflight = 0
    /\ isEditMode = FALSE
    /\ contextMenu = NoMenu
    /\ selectedNodeId = Null
    /\ menuAction = "none"
    /\ highlightPending = FALSE
    /\ rangeCall = NoCall
    /\ rangeResult = NoRange
    /\ models = <<"m1", "m2">>
    /\ loadingModels = FALSE
    /\ selError = Null
    /\ fetches = <<>>
    /\ latest = "ok"
    /\ isExporting = FALSE
    /\ exportMenuOpen = FALSE
    /\ pngPc = "idle"
    /\ downloads = 0
    /\ lastFormat = "none"
    /\ lastFile = NoFile
    /\ pngRuns = 0
    /\ clock = 0
    /\ hasError = FALSE
    /\ boundaryError = Undefined
    /\ life = 1

InitFetched == \E body \in FlowDatas : Fetched(body)

\* The layout of a first build settles, and the diagram is exported as built.
NextFreshExport ==
    \/ LayoutSettle
    \/ OpenExportMenu
    \/ CloseExportMenu
    \/ ChooseSync

SpecFreshExport == InitFetched /\ [][NextFreshExport]_vars

----------------------------------------------------------------------------
(* Properties of the build *)

\* A text with nothing but white space in it.
IsBlank(t) == \A i \in 1..Len(t) : t[i] = " "

\* A POST /process-text is sent by this step.
RequestSent == buildPc = "idle" /\ buildPc' = "fetch"

\* C1: processText sends the POST request only if the text is non-blank after
\* trimming and a model is selected; otherwise no request is sent, error
\* becomes the message of the failed check (the blank text is looked at before
\* the missing model) and isLoading, nodes and edges keep their values.
C1_ValidationGate ==
    [][ /\ (RequestSent => ~IsBlank(text) /\ selectedModel # "")
        /\ (InvokeProcessText /\ IsBlank(text) =>
              /\ ~RequestSent
              /\ error' = ErrBlankText
              /\ UNCHANGED <<isLoading, nodes, edges>>)
        /\ (InvokeProcessText /\ ~IsBlank(text) /\ selectedModel = "" =>
              /\ ~RequestSent
              /\ error' = ErrNoModel
              /\ UNCHANGED <<isLoading, nodes, edges>>) ]_vars

\* processText was called with a blank text and no model over a built diagram:
\* the message is the one of the blank text.
C1_Witness ==
    /\ IsBlank(text)
    /\ selectedModel = ""
    /\ error = ErrBlankText
    /\ ~isLoading

\* The ids of a response's nodes are pairwise distinct.
DistinctIds(ns) == \A i, j \in 1..Len(ns) : ns[i].id = ns[j].id => i = j

\* The canvas node n carries the response node r.
NodeCarries(n, r) ==
    /\ n.id = r.id
    /\ n.data.text = r.label
    /\ n.data.actor = r.actor
    /\ n.data.sourceSpan = r.sourceSpan

\* The canvas edge e carries the response edge r.
EdgeCarries(e, r) ==
    /\ e.source = r.from
    /\ e.target = r.to
    /\ e.label = r.label

\* One canvas node per response node, in some order, and one canvas edge per
\* response edge, in the response's order.
DiagramCarriesResponse ==
    /\ Len(nodes) = Len(data.nodes)
    /\ \E pi \in Perms(Len(nodes)) :
         \A k \in 1..Len(nodes) : NodeCarries(nodes[k], data.nodes[pi[k]])
    /\ Len(edges) = Len(data.edges)
    /\ \A k \in 1..Len(edges) : EdgeCarries(edges[k], data.edges[k])

\* The last build went through to the layout and has written its diagram.
BuildDone == buildPc = "idle" /\ outcome \in {"ok", "noChildren", "reject"}

\* C2: after a build whose response is OK, well formed and has pairwise
\* distinct node ids, nodes holds exactly one node per response node (same
\* id, data.text the label, actor and sourceSpan copied) and edges one edge
\* per response edge in the response's order (source from, target to, label
\* the label), whether the layout succeeds or fails.
C2_DiagramCarriesResponse ==
    BuildDone /\ DistinctIds(data.nodes) => DiagramCarriesResponse

\* A two-node, two-edge response laid out with its children in the other order.
C2_Witness ==
    /\ BuildDone
    /\ outcome = "ok"
    /\ Len(data.nodes) = 2
    /\ Len(data.edges) = 2
    /\ DistinctIds(data.nodes)
    /\ nodes[1].id = data.nodes[2].id

\* C2 as the specification words it, for every well-formed response.
C2_AsWritten == BuildDone => DiagramCarriesResponse

\* C3: isLoading is true from before the request is sent, stays true until the
\* diagram has been written or the error has been set, and is false again
\* after every outcome of the build.
C3_LoadingBracket ==
    /\ [](buildPc # "idle" => isLoading)
    /\ [][isLoading /\ ~isLoading' =>
            /\ buildPc # "idle" /\ buildPc' = "idle"
            /\ \/ error' = ErrBuildFailed /\ outcome' = "failed"
               \/ BuildDone' /\ (DistinctIds(data.nodes) => DiagramCarriesResponse')
         ]_vars
    /\ (isLoading ~> ~isLoading)

\* A build has come to its end, with a diagram written, and isLoading is off.
C3_Witness ==
    /\ ~isLoading
    /\ BuildDone
    /\ Len(nodes) = 2

\* C4: a build that fails (a response that is not OK, a rejected fetch, a body
\* without usable nodes and edges arrays) leaves nodes and edges as they were
\* and sets error to the message of the failed build.
C4_FailedBuildKeepsDiagram ==
    [][buildPc = "fetch" /\ buildPc' = "idle" =>
          /\ nodes' = nodes
          /\ edges' = edges
          /\ error' = ErrBuildFailed]_vars

\* A build failed over the diagram of an earlier build.
C4_Witness ==
    /\ buildPc = "idle"
    /\ outcome = "failed"
    /\ error = ErrBuildFailed
    /\ Len(nodes) = 2
    /\ Len(edges) > 0

\* C5: when the layout rejects or returns no children, the build still puts
\* every mapped node, at the coordinates (0, 0), and every mapped edge in the
\* state, and sets no error.
C5_LayoutFallback ==
    buildPc = "idle" /\ outcome \in {"noChildren", "reject"} =>
        /\ Len(nodes) = Len(data.nodes)
        /\ \A k \in 1..Len(nodes) :
             /\ NodeCarries(nodes[k], data.nodes[k])
             /\ nodes[k].position = <<0, 0>>
        /\ Len(edges) = Len(data.edges)
        /\ \A k \in 1..Len(edges) : EdgeCarries(edges[k], data.edges[k])
        /\ error = Null

\* The layout returned no children for a two-node, one-edge response.
C5_Witness ==
    /\ buildPc = "idle"
    /\ outcome = "noChildren"
    /\ Len(nodes) = 2
    /\ Len(edges) = 1
    /\ error = Null

\* C6: the layout changes positions only: for every child the layout engine
\* returns, getLayoutedElements yields a node with the id, data and style of
\* the input node with that id and the engine's coordinates as its position;
\* the edges come back unchanged and in the same order.
C6_LayoutOnlyPositions ==
    buildPc = "layout" =>
        \A elk \in ElkResults(reactFlowNodes) :
            elk.kind # "reject" =>
                LET r == getLayoutedElements(reactFlowNodes, reactFlowEdges, elk)
                IN  /\ Len(r.nodes) = Len(elk.children)
                    /\ \A k \in 1..Len(elk.children) :
                         /\ r.nodes[k].id = elk.children[k].id
                         /\ r.nodes[k].position = elk.children[k].pos
                         /\ \E j \in 1..Len(reactFlowNodes) :
                              /\ reactFlowNodes[j].id = elk.children[k].id
                              /\ r.nodes[k].data = reactFlowNodes[j].data
                              /\ r.nodes[k].style = reactFlowNodes[j].style
                    /\ r.edges = reactFlowEdges

\* The layout of a response with two different nodes and two edges is awaited.
C6_Witness ==
    /\ buildPc = "layout"
    /\ Len(data.nodes) = 2
    /\ data.nodes[1].id # data.nodes[2].id
    /\ Len(data.edges) = 2

----------------------------------------------------------------------------
(* Properties of ExportPanel *)

\* C7: no export (PNG, BPMN, Mermaid, JSON) changes nodes, edges, the
\* selection or the edit mode; and with no nodes an export changes no state
\* and starts no download.
C7_ExportsReadOnly ==
    [][ /\ UNCHANGED <<nodes, edges, selectedNodeId, isEditMode, contextMenu,
                       text, selectedModel, isLoading>>
        /\ (Len(nodes) = 0 =>
              UNCHANGED <<error, isExporting, pngPc, downloads>>) ]_vars

\* The PNG export was called over an empty diagram and has returned.
C7_Witness ==
    /\ Len(nodes) = 0
    /\ lastFormat = "png"
    /\ ~exportMenuOpen
    /\ ~isExporting
    /\ downloads = 0

----------------------------------------------------------------------------
(* Properties of ModelSelector *)

\* C8: once selectedModel is non-empty, it is changed by a choice made in the
\* dropdown only, never by the selection of the first fetched model.
C8_OnlyUserChangesSelection ==
    [][selectedModel # "" /\ selectedModel' # selectedModel => SelectModel]_vars

\* A GET /models settles by this step.
ModelsSettled == Len(fetches') < Len(fetches)

\* C9: loadingModels is true from the mount to the first settled fetch of the
\* list and never again; a fetch that succeeds sets models to the list
\* returned and clears the selector's error; a fetch that fails sets the
\* selector's error and leaves models as it was.
C9_SelectorStatus ==
    [][ /\ (loadingModels' => loadingModels)
        /\ (~ModelsSettled => loadingModels' = loadingModels)
        /\ (ModelsSettled =>
              /\ ~loadingModels'
              /\ \/ selError' = Null /\ models' \in ModelLists
                 \/ selError' = ErrModelsFailed /\ models' = models) ]_vars

----------------------------------------------------------------------------
(* Properties of the edit mode *)

\* The ids and texts of the nodes, in order.
NodeTexts(ns) == [k \in 1..Len(ns) |-> <<ns[k].id, ns[k].data.text>>]

\* C10: while the edit mode is off, no interaction with the diagram (a
\* connection, Edit or Delete of the context menu, a change of a node or an
\* edge reported by the canvas) changes the nodes there are, the text of a
\* node or the edges there are.
C10_ViewModeReadOnly ==
    [][~isEditMode =>
          /\ NodeTexts(nodes') = NodeTexts(nodes)
          /\ edges' = edges]_vars

\* The edit mode was left with the context menu's target still set, over a
\* diagram with nodes and edges.
C10_Witness ==
    /\ ~isEditMode
    /\ contextMenu # NoMenu
    /\ Len(nodes) = 2
    /\ Len(edges) > 0

----------------------------------------------------------------------------
(* Properties of ErrorBoundary *)

\* C11: ErrorBoundary starts with hasError false and renders its children;
\* once a render error has been caught hasError is true and stays true for
\* the rest of the component's life, and the fallback screen is rendered
\* instead of the children from then on.
C11_BoundaryLatches ==
    /\ ~hasError /\ BoundaryRenders = "children"
    /\ [][boundaryError' # boundaryError /\ life' = life => hasError']_vars
    /\ [][hasError /\ life' = life => hasError']_vars
    /\ [](hasError => BoundaryRenders = "fallback")
    /\ [](~hasError => BoundaryRenders = "children")

\* The render of ModelSelector threw on a model list that is undefined, and
\* the boundary caught it.
C11_Witness ==
    /\ hasError
    /\ boundaryError = "TypeError"
    /\ models = <<Undefined>>
    /\ life = 1

----------------------------------------------------------------------------
(* Properties of the context menu *)

\* C12: the Delete action of the context menu, in edit mode, removes its
\* target and nothing else: for a node, that node and every edge that starts
\* or ends at it; for an edge, the edge with that id, the nodes being left
\* alone; every other node and edge stays as it was, in its place.
C12_DeleteExact ==
    [][DeleteFromContext =>
         IF contextMenu.target = "node"
         THEN /\ nodes' = SelectSeq(nodes, LAMBDA n : n.id # contextMenu.id)
              /\ edges' = SelectSeq(edges, LAMBDA e : /\ e.source # contextMenu.id
                                                      /\ e.target # contextMenu.id)
         ELSE /\ nodes' = nodes
              /\ edges' = SelectSeq(edges, LAMBDA e : e.id # contextMenu.id)
      ]_vars

\* A node was deleted and an edge that did not touch it is still there.
C12_Witness ==
    /\ isEditMode
    /\ menuAction = "delete"
    /\ contextMenu = NoMenu
    /\ Len(nodes) = 1
    /\ Len(edges) = 1
    /\ edges[1].source = nodes[1].id
    /\ edges[1].target = nodes[1].id

\* Every edge of es starts and ends at a node of ns.
NoDangling(ns, es) ==
    \A k \in 1..Len(es) :
        /\ \E j \in 1..Len(ns) : ns[j].id = es[k].source
        /\ \E j \in 1..Len(ns) : ns[j].id = es[k].target

\* The edges of the last response start and end at nodes of that response.
ResponseClosed ==
    \A k \in 1..Len(data.edges) :
        /\ \E j \in 1..Len(data.nodes) : data.nodes[j].id = data.edges[k].from
        /\ \E j \in 1..Len(data.nodes) : data.nodes[j].id = data.edges[k].to

\* C13: editing brings in no dangling edge: if the edges of a build refer to
\* nodes of that build only, then after any deletions, renames, connections
\* and node selections every edge's source and target is the id of a node in
\* the nodes state.
C13_NoDanglingEdges == ResponseClosed => NoDangling(nodes, edges)

\* A node of a closed two-node diagram was deleted, with its edges, and an
\* edge was connected at the node that is left.
C13_Witness ==
    /\ ResponseClosed
    /\ Len(data.nodes) = 2
    /\ Len(data.edges) = 2
    /\ Len(nodes) = 1
    /\ Len(edges) = 1
    /\ edges[1].label = Undefined

\* The node m is the node n renamed to name: text and label are new, and the
\* id, actor, isAction, sourceSpan, position and style are those of n.
Renamed(n, m, name) ==
    /\ m.data.text = name
    /\ m.data.label = CustomNodeContent(name, n.data.actor, n.data.isAction)
    /\ m.id = n.id
    /\ m.data.actor = n.data.actor
    /\ m.data.isAction = n.data.isAction
    /\ m.data.sourceSpan = n.data.sourceSpan
    /\ m.position = n.position
    /\ m.style = n.style
    /\ DOMAIN m = DOMAIN n
    /\ DOMAIN m.data = DOMAIN n.data

\* The text the prompt starts with: the text of the menu's node.
CurrentText ==
    LET k == CHOOSE j \in 1..Len(nodes) :
                 /\ nodes[j].id = contextMenu.id
                 /\ \A i \in 1..(j - 1) : nodes[i].id # contextMenu.id
    IN  nodes[k].data.text

\* C14: a rename from the context menu with a new, different name changes the
\* data.text and data.label of the menu's node only: its id, actor, isAction,
\* sourceSpan, position and style, the other nodes and the edges stay as they
\* were; a cancelled prompt or the same name leaves nodes as they were; the
\* context menu is closed either way.
C14_RenameFrame ==
    [][EditFromContext /\ (\E j \in 1..Len(nodes) : nodes[j].id = contextMenu.id) =>
         /\ contextMenu' = NoMenu
         /\ edges' = edges
         /\ \/ nodes' = nodes
            \/ \E name \in PromptResults \ {Null, CurrentText} :
                 /\ Len(nodes') = Len(nodes)
                 /\ \A k \in 1..Len(nodes) :
                      IF nodes[k].id = contextMenu.id
                      THEN Renamed(nodes[k], nodes'[k], name)
                      ELSE nodes'[k] = nodes[k]
      ]_vars

\* The node b, built with the text L2, carries the text the prompt returned,
\* next to a node that kept its text.
C14_Witness ==
    /\ contextMenu = NoMenu
    /\ menuAction = "edit"
    /\ Len(nodes) = 2
    /\ nodes[1].id = "a" /\ nodes[1].data.text = "L1"
    /\ nodes[2].id = "b" /\ nodes[2].data.text = "L1"
    /\ nodes[2].data.label.label = "L1"

\* C18: every call of the Edit or the Delete action of the context menu, with
\* the edit mode on, leaves the context menu closed (contextMenu null),
\* whatever the diagram is, also when the menu's node or edge is no longer in
\* the diagram.
C18_MenuClosedAfterAction ==
    menuAction \in {"edit", "delete"} => contextMenu = NoMenu

\* C19: the context menu is displayed only while the edit mode is on, and
\* once the edit mode has been switched off no menu is displayed again before
\* a new right-click on a node or an edge, made in edit mode.
C19_MenuOnlyAfterRightClick ==
    /\ [](MenuShown => isEditMode)
    /\ [][~MenuShown /\ MenuShown' => onNodeContextMenu \/ onEdgeContextMenu]_vars

\* C20: after any builds, connections (onConnect) and deletions, the edges in
\* the edges state have pairwise distinct ids.
C20_EdgeIdsDistinct ==
    \A i, j \in 1..Len(edges) : edges[i].id = edges[j].id => i = j

----------------------------------------------------------------------------
(* Properties of the selection *)

\* C15: the highlight follows the selection: whenever the highlight effect is
\* not pending, a node carries the box-shadow of the selection if and only if
\* its id is selectedNodeId, after any node clicks, builds, renames and
\* deletions.
C15_HighlightFollowsSelection ==
    ~highlightPending =>
        \A k \in 1..Len(nodes) :
            nodes[k].style.boxShadow = SHADOW_SELECTED <=> nodes[k].id = selectedNodeId

----------------------------------------------------------------------------
(* Properties of concurrent requests *)

\* C16: at most one POST /process-text is in flight at any time: while
\* isLoading is true the build button is disabled and nothing else starts a
\* build, so that the diagram written to the state comes from the build
\* started last.
C16_OneBuildInFlight ==
    /\ [](inflight <= 1)
    /\ [](isLoading => BuildButtonDisabled)
    /\ [][inflight' > inflight => inflight = 0 /\ buildPc = "idle" /\ ~isLoading]_vars
    /\ [][nodes' # nodes \/ edges' # edges =>
            inflight = 0 /\ buildPc = "layout" /\ isLoading]_vars

\* A second build is in flight over the diagram of the first, with the button
\* disabled.
C16_Witness ==
    /\ inflight = 1
    /\ buildPc = "fetch"
    /\ isLoading
    /\ BuildButtonDisabled
    /\ Len(nodes) = 2

\* ModelSelector render: the error panel is returned when loadingModels is
\* false and error is set.
ErrorPanelShown == ~loadingModels /\ selError # Null

\* C17: when fetches of the model list overlap, then once no fetch is in
\* flight the selector shows its error panel if and only if the fetch that
\* was started last has failed.
C17_PanelFollowsLatestFetch ==
    Mounted /\ Len(fetches) = 0 => (ErrorPanelShown <=> latest = "failed")

----------------------------------------------------------------------------
(* Properties of findHighlightRange *)

\* The 0-based position at which the k-th sentence of t itself starts: the
\* first character of its piece that is not white space.
SentenceStart(t, k) ==
    LET p == Pieces(t)[k]
    IN  (CHOOSE i \in p[1]..p[2] :
            /\ t[i] # " "
            /\ \A j \in p[1]..(i - 1) : t[j] = " ") - 1

\* C21: findHighlightRange returns null for a missing or blank node text and
\* for a text without sentences; when it returns [start, end] for the
\* sentence the matcher picked, 0 <= start < end <= length of fullText and
\* start is the position at which that sentence itself occurs in fullText,
\* not an earlier occurrence of the same characters.
C21_RangeIsTheSentence ==
    LET ft == rangeCall.fullText
        nt == rangeCall.nodeText
    IN  /\ (~nt.defined \/ IsBlank(nt.text) \/ Len(Pieces(ft)) = 0 =>
              rangeResult = NoRange)
        /\ (rangeResult # NoRange =>
              /\ 0 <= rangeResult[1]
              /\ rangeResult[1] < rangeResult[2]
              /\ rangeResult[2] <= Len(ft)
              /\ rangeResult[1] = SentenceStart(ft, rangeCall.pick))

----------------------------------------------------------------------------
(* Properties of the exported files *)

\* The statements of a Mermaid file as C22 words them.
MermaidAsSpecified(ns, es) ==
    <<"graph TD">>
      \o [k \in 1..Len(ns) |->
            IF ns[k].data.isAction
            THEN ns[k].id \o "[\"" \o ns[k].data.text \o "\"]"
            ELSE ns[k].id \o "{\"" \o ns[k].data.text \o "\"}"]
      \o [k \in 1..Len(es) |->
            IF Truthy(es[k].label)
            THEN es[k].source \o " -->|\"" \o es[k].label \o "\"| " \o es[k].target
            ELSE es[k].source \o " --> " \o es[k].target]

\* C22: the Mermaid file holds the header 'graph TD', then one line per node,
\* id["text"] for an action node and id{"text"} otherwise, then one line per
\* edge: 'source --> target' for an edge without label and
\* 'source -->|"label"| target', the label between two pipes, for an edge
\* with a label.
C22_MermaidText ==
    lastFile.format = "mermaid" =>
        [k \in 1..Len(lastFile.lines) |-> lastFile.lines[k].statement]
            = MermaidAsSpecified(nodes, edges)

\* JSON.parse of the file, then object[key]: undefined for a property the
\* text does not hold.
Property(object, key) == IF key \in DOMAIN object THEN object[key] ELSE Undefined

\* The entry e of the file gives back the id, label and actor of the response
\* node r.
NodeRecovered(e, r) ==
    /\ Property(e, "id") = r.id
    /\ Property(e, "label") = r.label
    /\ Property(e, "actor") = r.actor

\* The entry e of the file gives back the sourceSpan of the response node r,
\* or has none as r has none.
SpanRecovered(e, r) ==
    IF "sourceSpan" \in DOMAIN e THEN e.sourceSpan = r.sourceSpan
                                 ELSE r.sourceSpan = NoSpan

\* The entry e of the file gives back the response edge r.
EdgeRecovered(e, r) ==
    /\ Property(e, "from") = r.from
    /\ Property(e, "to") = r.to
    /\ Property(e, "label") = r.label

\* The JSON file was written from the diagram of a first build.
FreshJson == buildPc = "idle" /\ lastFile.format = "json"

\* The file lists the nodes and the edges in the order of the state.
StateOrder ==
    /\ Len(lastFile.nodes) = Len(nodes)
    /\ \A k \in 1..Len(nodes) : Property(lastFile.nodes[k], "id") = nodes[k].id
    /\ Len(lastFile.edges) = Len(edges)
    /\ \A k \in 1..Len(edges) : Property(lastFile.edges[k], "id") = edges[k].id

\* C23, as the spec words it: the response's nodes and edges are recovered
\* from the file of a freshly built diagram, apart from type and positions.
C23_AsWritten ==
    FreshJson =>
        /\ StateOrder
        /\ Len(lastFile.nodes) = Len(data.nodes)
        /\ \E pi \in Perms(Len(data.nodes)) :
             \A k \in 1..Len(data.nodes) :
                /\ NodeRecovered(lastFile.nodes[k], data.nodes[pi[k]])
                /\ SpanRecovered(lastFile.nodes[k], data.nodes[pi[k]])
        /\ Len(lastFile.edges) = Len(data.edges)
        /\ \A k \in 1..Len(data.edges) :
             EdgeRecovered(lastFile.edges[k], data.edges[k])

\* C23: for a freshly built, unedited diagram whose response has pairwise
\* distinct node ids, the exported JSON lists one entry per node with the
\* response's id, label and actor and one entry per edge with the response's
\* from, to and label, in the order of the state; the sourceSpan of a node is
\* not in the file.
C23_JsonRoundTrip ==
    FreshJson /\ DistinctIds(data.nodes) =>
        /\ StateOrder
        /\ Len(lastFile.nodes) = Len(data.nodes)
        /\ \E pi \in Perms(Len(data.nodes)) :
             \A k \in 1..Len(data.nodes) :
                /\ NodeRecovered(lastFile.nodes[k], data.nodes[pi[k]])
                /\ "sourceSpan" \notin DOMAIN lastFile.nodes[k]
        /\ Len(lastFile.edges) = Len(data.edges)
        /\ \A k \in 1..Len(data.edges) :
             EdgeRecovered(lastFile.edges[k], data.edges[k])

\* A diagram of two nodes, one without actor, laid out in the other order,
\* with a labelled and an unlabelled edge, was exported as JSON.
C23_Witness ==
    /\ FreshJson
    /\ outcome = "ok"
    /\ Len(data.nodes) = 2
    /\ DistinctIds(data.nodes)
    /\ nodes[1].id = data.nodes[2].id
    /\ Len(data.edges) = 2
    /\ data.edges[1].label # data.edges[2].label

\* C24: isExporting is true only between the start of a PNG export and its
\* settlement; it is reset to false when the export settles, also when the
\* viewport is not found or the image generation rejects, in which cases
\* error is the export-failed message; every export that started settles;
\* and at most one PNG export runs at a time.
C24_PngLifecycle ==
    /\ [](isExporting <=> pngRuns > 0)
    /\ [](pngRuns <= 1)
    /\ [][pngRuns' < pngRuns =>
            /\ ~isExporting'
            /\ (downloads' = downloads => error' = ErrPngFailed)]_vars
    /\ (isExporting ~> ~isExporting)

\* A PNG export has started, failed and was reset.
C24_Witness ==
    /\ lastFormat = "png"
    /\ ~isExporting
    /\ pngRuns = 0
    /\ error = ErrPngFailed
    /\ downloads = 0
    /\ Len(nodes) > 0

----------------------------------------------------------------------------
(* Properties of the page load *)

\* C25: no diagram is built automatically: no request is in flight in the
\* initial state, and a POST /process-text is sent by a click on the build
\* button only, never by the mount, typing, the choice of a model or the
\* selection of a node.
C25_BuildOnlyOnClick ==
    /\ inflight = 0
    /\ buildPc = "idle"
    /\ [][inflight' > inflight \/ RequestSent => ClickBuild]_vars

\* After a page load the model list arrived, the user chose the second model
\* and clicked the build button: the request is in flight.
C25_Witness ==
    /\ inflight = 1
    /\ buildPc = "fetch"
    /\ selectedModel = "m2"
    /\ nodes = <<>>
    /\ error = Null

=============================================================================
